---- MODULE Spec2Model ----
(***************************************************************************)
(* Intent classification and reply resolution of the Mobilis chat bot:     *)
(* the bot-response store (MemStorage), the route helpers analyzeIntent    *)
(* and generateBotResponse, the message route and the Messenger webhook    *)
(* handler that call them, and the MobilisChatBot service with its fixed   *)
(* intent table; the Facebook settings, webhook verification and           *)
(* statistics routes; and message and webhook requests in flight together, *)
(* each suspended at the awaits of its handler.                            *)
(*                                                                         *)
(* A string is a sequence of UTF-16 code units.  A code unit is written as *)
(* a one-character string when it is printable ASCII and as "Uhhhh"        *)
(* otherwise, so Len is the JavaScript .length of the string.  Reply texts *)
(* are never scanned, only returned, and are kept as opaque strings in     *)
(* which a run of non-ASCII code units is written [hhhh hhhh ...].         *)
(***************************************************************************)
EXTENDS Integers, Sequences, FiniteSets, TLC

VARIABLES botResponses, nextId, ops, call, conversations, sent, probe,
          requests, facebookSettings, chatStats, answer

\* the state of the settings and statistics routes
admin == <<facebookSettings, chatStats, answer>>

vars == <<botResponses, nextId, ops, call, conversations, sent, probe,
          requests, admin>>

(***************************************************************************)
(* Strings                                                                 *)
(***************************************************************************)
Str(s) == [i \in 1..Len(s) |-> SubSeq(s, i, i)]

UpperLetters == Str("ABCDEFGHIJKLMNOPQRSTUVWXYZ")

LowerLetters == Str("abcdefghijklmnopqrstuvwxyz")

UpperToLower ==
  [c \in {UpperLetters[i] : i \in 1..26} |->
     LowerLetters[CHOOSE i \in 1..26 : UpperLetters[i] = c]]

\* String.prototype.toLowerCase on one code unit.  U+0130 (capital I with
\* dot above) is the one unit whose lower-case form is two units long:
\* "i" followed by U+0307 (combining dot above).
LowerChar(c) ==
  IF c = "U0130" THEN <<"i", "U0307">>
  ELSE IF c = "U00C8" THEN <<"U00E8">>
  ELSE IF c \in DOMAIN UpperToLower THEN <<UpperToLower[c]>>
  ELSE <<c>>

RECURSIVE ToLowerCase(_)
ToLowerCase(s) ==
  IF s = <<>> THEN <<>> ELSE LowerChar(Head(s)) \o ToLowerCase(Tail(s))

WhiteSpace == {" "}

RECURSIVE TrimStart(_)
TrimStart(s) ==
  IF s # <<>> /\ Head(s) \in WhiteSpace THEN TrimStart(Tail(s)) ELSE s

RECURSIVE TrimEnd(_)
TrimEnd(s) ==
  IF s # <<>> /\ s[Len(s)] \in WhiteSpace
  THEN TrimEnd(SubSeq(s, 1, Len(s) - 1)) ELSE s

\* String.prototype.trim
Trim(s) == TrimEnd(TrimStart(s))

\* String.prototype.startsWith
Includes_StartsWith(s, k) == Len(k) <= Len(s) /\ SubSeq(s, 1, Len(k)) = k

\* String.prototype.includes: the empty string is included in every string.
Includes(s, k) ==
  \E i \in 0..(Len(s) - Len(k)) : SubSeq(s, i + 1, i + Len(k)) = k

(***************************************************************************)
(* Numbers.  A confidence is the quotient num / den of two string lengths; *)
(* 0 / 0 is NaN and k / 0 with k > 0 is Infinity.  Lengths are far below   *)
(* 2^26, so two such quotients compare as doubles exactly as they compare  *)
(* as rationals, and so do a quotient and the literal 0.1.                 *)
(***************************************************************************)
Divide(k, n) == [num |-> k, den |-> n]

Zero == Divide(0, 1)

IsNaN(c) == c.den = 0 /\ c.num = 0

\* a > b on numbers: false as soon as an operand is NaN
LessThanOrEqual(a, b) ==
  /\ ~IsNaN(a)
  /\ ~IsNaN(b)
  /\ IF b.den = 0 THEN TRUE
     ELSE IF a.den = 0 THEN FALSE
     ELSE a.num * b.den <= b.num * a.den

\* !(a <= b), which is a > b except that it is true of NaN
GreaterThan_NotLessOrEqual(a, b) == ~LessThanOrEqual(a, b)

\* a >= b
GreaterThan_OrEqual(a, b) == LessThanOrEqual(b, a)

GreaterThan(a, b) ==
  /\ ~IsNaN(a)
  /\ ~IsNaN(b)
  /\ IF b.den = 0 THEN FALSE
     ELSE IF a.den = 0 THEN TRUE
     ELSE a.num * b.den > b.num * a.den

\* confidence <= 0.1
BelowThreshold_OrEqual(c) == ~IsNaN(c) /\ c.den # 0 /\ 10 * c.num <= c.den

\* confidence < 0.1
BelowThreshold(c) == ~IsNaN(c) /\ c.den # 0 /\ 10 * c.num < c.den

(***************************************************************************)
(* MemStorage: the bot responses.  botResponses is the Map in iteration    *)
(* (insertion) order; ids are handed out in increasing order, so a smaller *)
(* id is an earlier insertion.  createdAt is left out: nothing reads it.   *)
(***************************************************************************)
defaultResponses ==
  <<
    [intent |-> "balance_inquiry",
     keywords |-> << <<"U0631", "U0635", "U064A", "U062F">>,
                   Str("balance"),
                   Str("solde"),
                   Str("credit") >>,
     responseAr |-> "[064A 0645 0643 0646 0643 0645] [0627 0644 0627 0633 062A 0639 0644 0627 0645] [0639 0646] [0631 0635 064A 062F 0643 0645] [0639 0628 0631] [0627 0644 0627 062A 0635 0627 0644] [0628 0640] *555# [0623 0648] [0639 0628 0631] [062A 0637 0628 064A 0642] [0645 0648 0628 0644 064A 0633]",
     responseFr |-> "Vous pouvez consulter votre solde en composant *555# ou via l'application Mobilis",
     category |-> "balance",
     isActive |-> TRUE],
    [intent |-> "recharge",
     keywords |-> << <<"U0634", "U062D", "U0646">>,
                   Str("recharge"),
                   Str("rechargement"),
                   Str("credit") >>,
     responseAr |-> "[064A 0645 0643 0646 0643 0645] [0634 062D 0646] [0631 0635 064A 062F 0643 0645] [0639 0628 0631] [0628 0637 0627 0642 0627 062A] [0627 0644 0634 062D 0646] [0623 0648] [0639 0628 0631] [0627 0644 062A 0637 0628 064A 0642] [0627 0644 0645 0635 0631 0641 064A]",
     responseFr |-> "Vous pouvez recharger via les cartes de recharge ou l'application bancaire",
     category |-> "recharge",
     isActive |-> TRUE],
    [intent |-> "plans",
     keywords |-> << <<"U0628", "U0627", "U0642", "U0629">>,
                   <<"U0628", "U0627", "U0642", "U0627", "U062A">>,
                   Str("forfait"),
                   Str("plans"),
                   Str("abonnement") >>,
     responseAr |-> "[0644 062F 064A 0646 0627] [0628 0627 0642 0627 062A] [0645 062A 0646 0648 0639 0629] [0644 0644 0645 0643 0627 0644 0645 0627 062A] [0648 0627 0644 0625 0646 062A 0631 0646 062A]. [0627 062A 0635 0644] [0628 0640] 600 [0644 0644 0645 0632 064A 062F] [0645 0646] [0627 0644 062A 0641 0627 0635 064A 0644]",
     responseFr |-> "Nous avons diverses offres d'appels et internet. Appelez le 600 pour plus de d[00E9]tails",
     category |-> "plans",
     isActive |-> TRUE],
    [intent |-> "support",
     keywords |-> << <<"U0645", "U0633", "U0627", "U0639", "U062F", "U0629">>,
                   <<"U062F", "U0639", "U0645">>,
                   Str("aide"),
                   Str("support"),
                   <<"p", "r", "o", "b", "l", "U00E8", "m", "e">>,
                   <<"U0645", "U0634", "U0643", "U0644", "U0629">> >>,
     responseAr |-> "[0641 0631 064A 0642] [0627 0644 062F 0639 0645] [0627 0644 0641 0646 064A] [0645 062A 0627 062D] [0639 0644 0649] 600 [0645 0646] 8:00 [0625 0644 0649] 20:00",
     responseFr |-> "Le support technique est disponible au 600 de 8h00 [00E0] 20h00",
     category |-> "support",
     isActive |-> TRUE],
    [intent |-> "greeting",
     keywords |-> << <<"U0645", "U0631", "U062D", "U0628", "U0627">>,
                   <<"U0623", "U0647", "U0644", "U0627">>,
                   <<"U0627", "U0644", "U0633", "U0644", "U0627", "U0645">>,
                   Str("bonjour"),
                   Str("salut"),
                   Str("hello") >>,
     responseAr |-> "[0645 0631 062D 0628 0627 064B] [0628 0643 0645] [0641 064A] [062E 062F 0645 0629] [0639 0645 0644 0627 0621] [0645 0648 0628 0644 064A 0633]! [0643 064A 0641] [064A 0645 0643 0646 0646 064A] [0645 0633 0627 0639 062F 062A 0643 0645 061F]",
     responseFr |-> "Bienvenue chez Mobilis! Comment puis-je vous aider?",
     category |-> "general",
     isActive |-> TRUE]
  >>

\* What the constructor leaves in the Map: the defaults with ids 1..5.
InitialBotResponses ==
  [i \in 1..Len(defaultResponses) |->
     [id |-> i,
      intent |-> defaultResponses[i].intent,
      keywords |-> defaultResponses[i].keywords,
      responseAr |-> defaultResponses[i].responseAr,
      responseFr |-> defaultResponses[i].responseFr,
      category |-> defaultResponses[i].category,
      isActive |-> defaultResponses[i].isActive]]

getAllBotResponses_Unfiltered(store) == store

getAllBotResponses(store) == SelectSeq(store, LAMBDA r : r.isActive)

NoResponse == [id |-> 0]

\* the first entry in Map order with this intent that is active, or undefined
getBotResponseByIntent(store, intent) ==
  LET found == SelectSeq(store, LAMBDA r : r.intent = intent /\ r.isActive)
  IN IF found = <<>> THEN NoResponse ELSE found[1]

createBotResponse(store, id, response) ==
  Append(store,
         [id |-> id,
          intent |-> response.intent,
          keywords |-> response.keywords,
          responseAr |-> response.responseAr,
          responseFr |-> response.responseFr,
          category |-> response.category,
          isActive |-> response.isActive])

HasId(store, id) == \E i \in 1..Len(store) : store[i].id = id

Merge(response, updates) ==
  [f \in DOMAIN response |->
     IF f \in DOMAIN updates THEN updates[f] ELSE response[f]]

deleteBotResponse(store, id) == SelectSeq(store, LAMBDA r : r.id # id)

\* Map.set on a key that is present keeps the key's position
updateBotResponse(store, id, updates) ==
  IF ~HasId(store, id) THEN store
  ELSE [i \in 1..Len(store) |->
          IF store[i].id = id THEN Merge(store[i], updates) ELSE store[i]]

\* MemStorage.getConversationByUserId: the id of the first active
\* conversation of the user, 0 when there is none (undefined)
getConversationByUserId(convs, userId) ==
  LET found == {i \in 1..Len(convs) :
                  convs[i].userId = userId /\ convs[i].isActive}
  IN IF found = {} THEN 0
     ELSE convs[CHOOSE i \in found : \A k \in found : i <= k].id

\* MemStorage.createConversation; the fresh id is the next index, since
\* no conversation is ever removed
createConversation(convs, insertConversation) ==
  Append(convs,
         [id |-> Len(convs) + 1,
          userId |-> insertConversation.userId,
          platform |-> insertConversation.platform,
          messages |-> insertConversation.messages,
          isActive |-> insertConversation.isActive])

HasConversation_Always(convs, id) == TRUE

HasConversation(convs, id) == \E i \in 1..Len(convs) : convs[i].id = id

addMessageToConversation_Prepend(convs, id, message) ==
  [i \in 1..Len(convs) |->
     IF convs[i].id = id
     THEN [convs[i] EXCEPT !.messages = << message >> \o @]
     ELSE convs[i]]

addMessageToConversation_Overwrite(convs, id, message) ==
  [i \in 1..Len(convs) |->
     IF convs[i].id = id
     THEN [convs[i] EXCEPT !.messages = << message >>]
     ELSE convs[i]]

\* MemStorage.addMessageToConversation on a conversation that exists
addMessageToConversation(convs, id, message) ==
  [i \in 1..Len(convs) |->
     IF convs[i].id = id
     THEN [convs[i] EXCEPT !.messages = Append(@, message)]
     ELSE convs[i]]

(***************************************************************************)
(* Route helpers analyzeIntent and generateBotResponse                     *)
(***************************************************************************)
UnknownAr == "[0639 0630 0631 0627 064B 060C] [0644 0645] [0623 0641 0647 0645] [0627 0633 062A 0641 0633 0627 0631 0643 0645]. [064A 0645 0643 0646 0643 0645] [0627 0644 062A 0648 0627 0635 0644] [0645 0639] [062E 062F 0645 0629] [0627 0644 0639 0645 0644 0627 0621] [0639 0644 0649] 600"

UnknownFr == "D[00E9]sol[00E9], je n'ai pas compris votre demande. Vous pouvez contacter le service client au 600"

\* the value null of generateBotResponse; no reply text equals it
Null == "<null>"

UnknownIntent == [intent |-> "unknown", confidence |-> Zero, category |-> "general"]

normalizeText(text) == ToLowerCase(text)

KeywordMatches_CaseSensitive(normalizedText, keyword) ==
  Includes(normalizedText, keyword)

KeywordMatches(normalizedText, keyword) ==
  Includes(normalizedText, ToLowerCase(keyword))

\* the loop over the keywords of one response, from keyword j on
RECURSIVE analyzeIntent_keywords(_, _, _, _, _)
analyzeIntent_keywords(normalizedText, text, response, j, bestMatch) ==
  IF j > Len(response.keywords) THEN bestMatch
  ELSE LET keyword == response.keywords[j]
           confidence == Divide(Len(keyword), Len(text))
       IN analyzeIntent_keywords(normalizedText, text, response, j + 1,
            IF /\ KeywordMatches(normalizedText, keyword)
               /\ GreaterThan(confidence, bestMatch.confidence)
            THEN [intent |-> response.intent,
                  confidence |-> confidence,
                  category |-> response.category]
            ELSE bestMatch)

\* the loop over the responses, from response i on
RECURSIVE analyzeIntent_responses(_, _, _, _, _)
analyzeIntent_responses(normalizedText, text, responses, i, bestMatch) ==
  IF i > Len(responses) THEN bestMatch
  ELSE analyzeIntent_responses(normalizedText, text, responses, i + 1,
         analyzeIntent_keywords(normalizedText, text, responses[i], 1, bestMatch))

\* A keyword that is not a string (a JSON number): the jsonb column takes
\* any array
NotAString == <<"<number>">>

IsString(keyword) == keyword # NotAString

analyzeIntent_raises_OnEmptyText(text, store) ==
  \/ Len(text) = 0
  \/ \E i \in 1..Len(store) :
       /\ store[i].isActive
       /\ \E j \in 1..Len(store[i].keywords) : ~IsString(store[i].keywords[j])

\* analyzeIntent raises a TypeError where the loop calls toLowerCase on a
\* keyword that is not a string; nothing else in it can raise
analyzeIntent_raises(text, store) ==
  \E i \in 1..Len(store) :
    /\ store[i].isActive
    /\ \E j \in 1..Len(store[i].keywords) : ~IsString(store[i].keywords[j])

analyzeIntent_SharedBestMatch(text, store) ==
  analyzeIntent_responses(normalizeText(text), text,
                          getAllBotResponses(store), 1, probe.intent)

analyzeIntent(text, store) ==
  analyzeIntent_responses(normalizeText(text), text,
                          getAllBotResponses(store), 1, UnknownIntent)

generateBotResponse_SwappedLanguage(intent, language, store) ==
  IF BelowThreshold(intent.confidence)
  THEN IF language = "ar" THEN UnknownAr ELSE UnknownFr
  ELSE LET response == getBotResponseByIntent(store, intent.intent)
       IN IF response = NoResponse THEN Null
          ELSE IF language = "ar" THEN response.responseFr
               ELSE response.responseAr

generateBotResponse(intent, language, store) ==
  IF BelowThreshold(intent.confidence)
  THEN IF language = "ar" THEN UnknownAr ELSE UnknownFr
  ELSE LET response == getBotResponseByIntent(store, intent.intent)
       IN IF response = NoResponse THEN Null
          ELSE IF language = "ar" THEN response.responseAr
               ELSE response.responseFr

(***************************************************************************)
(* MobilisChatBot: the service with its own, fixed intent table            *)
(***************************************************************************)
predefinedIntents ==
  <<
    [name |-> "balance",
     keywords |-> << <<"U0631", "U0635", "U064A", "U062F">>,
                   Str("balance"),
                   Str("solde"),
                   Str("credit"),
                   <<"U0627", "U0633", "U062A", "U0639", "U0644", "U0627", "U0645">> >>,
     category |-> "balance"],
    [name |-> "recharge",
     keywords |-> << <<"U0634", "U062D", "U0646">>,
                   Str("recharge"),
                   Str("rechargement"),
                   Str("credit"),
                   Str("top-up") >>,
     category |-> "recharge"],
    [name |-> "plans",
     keywords |-> << <<"U0628", "U0627", "U0642", "U0629">>,
                   <<"U0628", "U0627", "U0642", "U0627", "U062A">>,
                   Str("forfait"),
                   Str("plans"),
                   Str("abonnement"),
                   Str("subscription") >>,
     category |-> "plans"],
    [name |-> "support",
     keywords |-> << <<"U0645", "U0633", "U0627", "U0639", "U062F", "U0629">>,
                   <<"U062F", "U0639", "U0645">>,
                   Str("aide"),
                   Str("support"),
                   <<"p", "r", "o", "b", "l", "U00E8", "m", "e">>,
                   <<"U0645", "U0634", "U0643", "U0644", "U0629">>,
                   Str("help") >>,
     category |-> "support"],
    [name |-> "greeting",
     keywords |-> << <<"U0645", "U0631", "U062D", "U0628", "U0627">>,
                   <<"U0623", "U0647", "U0644", "U0627">>,
                   <<"U0627", "U0644", "U0633", "U0644", "U0627", "U0645">>,
                   Str("bonjour"),
                   Str("salut"),
                   Str("hello"),
                   Str("hi") >>,
     category |-> "general"]
  >>

responses_ar ==
  [
   balance |-> "[064A 0645 0643 0646 0643 0645] [0627 0644 0627 0633 062A 0639 0644 0627 0645] [0639 0646] [0631 0635 064A 062F 0643 0645] [0639 0628 0631] [0627 0644 0627 062A 0635 0627 0644] [0628 0640] *555# [0623 0648] [0639 0628 0631] [062A 0637 0628 064A 0642] [0645 0648 0628 0644 064A 0633]",
   recharge |-> "[064A 0645 0643 0646 0643 0645] [0634 062D 0646] [0631 0635 064A 062F 0643 0645] [0639 0628 0631] [0628 0637 0627 0642 0627 062A] [0627 0644 0634 062D 0646] [0623 0648] [0639 0628 0631] [0627 0644 062A 0637 0628 064A 0642] [0627 0644 0645 0635 0631 0641 064A] [0623 0648] [0646 0642 0627 0637] [0627 0644 0628 064A 0639] [0627 0644 0645 0639 062A 0645 062F 0629]",
   plans |-> "[0644 062F 064A 0646 0627] [0628 0627 0642 0627 062A] [0645 062A 0646 0648 0639 0629] [0644 0644 0645 0643 0627 0644 0645 0627 062A] [0648 0627 0644 0625 0646 062A 0631 0646 062A]. [0627 062A 0635 0644] [0628 0640] 600 [0644 0644 0645 0632 064A 062F] [0645 0646] [0627 0644 062A 0641 0627 0635 064A 0644] [0623 0648] [0632 0648 0631 0648 0627] [0623 0642 0631 0628] [0648 0643 0627 0644 0629] [0645 0648 0628 0644 064A 0633]",
   support |-> "[0641 0631 064A 0642] [0627 0644 062F 0639 0645] [0627 0644 0641 0646 064A] [0645 062A 0627 062D] [0639 0644 0649] 600 [0645 0646] 8:00 [0625 0644 0649] 20:00[060C] [0623 0648] [064A 0645 0643 0646 0643 0645] [0632 064A 0627 0631 0629] [0623 0642 0631 0628] [0648 0643 0627 0644 0629] [0645 0648 0628 0644 064A 0633]",
   greeting |-> "[0645 0631 062D 0628 0627 064B] [0628 0643 0645] [0641 064A] [062E 062F 0645 0629] [0639 0645 0644 0627 0621] [0645 0648 0628 0644 064A 0633]! [0643 064A 0641] [064A 0645 0643 0646 0646 064A] [0645 0633 0627 0639 062F 062A 0643 0645] [0627 0644 064A 0648 0645 061F]",
   unknown |-> "[0639 0630 0631 0627 064B 060C] [0644 0645] [0623 0641 0647 0645] [0627 0633 062A 0641 0633 0627 0631 0643 0645]. [064A 0645 0643 0646 0643 0645] [0627 0644 062A 0648 0627 0635 0644] [0645 0639] [062E 062F 0645 0629] [0627 0644 0639 0645 0644 0627 0621] [0639 0644 0649] 600 [0623 0648] [0632 064A 0627 0631 0629] [0623 0642 0631 0628] [0648 0643 0627 0644 0629] [0645 0648 0628 0644 064A 0633]"
  ]

responses_fr ==
  [
   balance |-> "Vous pouvez consulter votre solde en composant *555# ou via l'application Mobilis",
   recharge |-> "Vous pouvez recharger via les cartes de recharge, l'application bancaire ou les points de vente agr[00E9 00E9]s",
   plans |-> "Nous avons diverses offres d'appels et internet. Appelez le 600 pour plus de d[00E9]tails ou visitez une agence Mobilis",
   support |-> "Le support technique est disponible au 600 de 8h00 [00E0] 20h00, ou visitez l'agence Mobilis la plus proche",
   greeting |-> "Bienvenue chez Mobilis! Comment puis-je vous aider aujourd'hui?",
   unknown |-> "D[00E9]sol[00E9], je n'ai pas compris votre demande. Vous pouvez contacter le service client au 600 ou visiter une agence Mobilis"
  ]

responses == [ar |-> responses_ar, fr |-> responses_fr]

RECURSIVE MobilisChatBot_keywords(_, _, _, _, _)
MobilisChatBot_keywords(normalizedMessage, message, intentEntry, j, bestMatch) ==
  IF j > Len(intentEntry.keywords) THEN bestMatch
  ELSE LET keyword == intentEntry.keywords[j]
           confidence == Divide(Len(keyword), Len(message))
       IN MobilisChatBot_keywords(normalizedMessage, message, intentEntry, j + 1,
            IF /\ Includes(normalizedMessage, ToLowerCase(keyword))
               /\ GreaterThan(confidence, bestMatch.confidence)
            THEN [intent |-> intentEntry.name,
                  confidence |-> confidence,
                  category |-> intentEntry.category]
            ELSE bestMatch)

RECURSIVE MobilisChatBot_entries(_, _, _, _)
MobilisChatBot_entries(normalizedMessage, message, i, bestMatch) ==
  IF i > Len(predefinedIntents) THEN bestMatch
  ELSE MobilisChatBot_entries(normalizedMessage, message, i + 1,
         MobilisChatBot_keywords(normalizedMessage, message,
                                 predefinedIntents[i], 1, bestMatch))

MobilisChatBot_analyzeIntent(message) ==
  MobilisChatBot_entries(Trim(ToLowerCase(message)), message, 1, UnknownIntent)

\* responses[language][intent.intent] || responses[language].unknown
MobilisChatBot_generateResponse(intent, language) ==
  IF BelowThreshold(intent.confidence) THEN responses[language].unknown
  ELSE IF intent.intent \in DOMAIN responses[language]
       THEN responses[language][intent.intent]
       ELSE responses[language].unknown

(***************************************************************************)
(* Inputs                                                                  *)
(***************************************************************************)
Languages == {"ar", "fr"}

MaxOps == 2

MaxEntries == 2

MaxKeywords == 2

MaxMsgLen == 2

MaxLength == 11

\* Code units of the exhaustive runs: a letter in both cases, a blank, and
\* U+0130 with the two units of its lower-case form.
Chars == {"i", "I", " ", "U0130", "U0307"}

StringsUpTo(n) == UNION {[1..k -> Chars] : k \in 0..n}

Messages == StringsUpTo(MaxMsgLen)

KeywordPool ==
  { <<>>, <<" ">>, <<"i">>, <<"I">>, <<" ", "i">>, <<"i", "U0307">> }

KeywordLists(n) == UNION {[1..k -> KeywordPool] : k \in 0..n}

\* The catalogs of n entries with at most b keywords in all: entry i is
\* default response i with its keywords replaced.  A shorter catalog is one
\* whose last entries have no keywords.
RECURSIVE CatalogsOf(_, _)
CatalogsOf(n, b) ==
  IF n = 0 THEN {<<>>}
  ELSE UNION { { Append(c, [InitialBotResponses[n] EXCEPT !.keywords = ks]) :
                   c \in CatalogsOf(n - 1, b - Len(ks)) } :
               ks \in KeywordLists(b) }

Catalogs == CatalogsOf(MaxEntries, MaxKeywords)

\* Catalogs of the reply runs: each entry carries one of two intents.
RECURSIVE ReplyCatalogsOf(_)
ReplyCatalogsOf(n) ==
  IF n = 0 THEN {<<>>}
  ELSE { Append(c, [InitialBotResponses[n] EXCEPT
                      !.intent = t, !.isActive = a]) :
           c \in ReplyCatalogsOf(n - 1),
           t \in {"balance_inquiry", "recharge"}, a \in BOOLEAN }

\* Catalogs with a keyword that is not a string
MalformedCatalogs ==
  { << [InitialBotResponses[1] EXCEPT !.keywords = ks, !.isActive = a] >> :
      ks \in { <<NotAString>>, << <<"i">>, NotAString >> }, a \in BOOLEAN }

ReplyCatalogs == UNION {ReplyCatalogsOf(n) : n \in 0..MaxEntries}

\* Every ServiceIntent whose confidence is a quotient of lengths up to MaxLength
ServiceIntents ==
  { [intent |-> t, confidence |-> Divide(k, n), category |-> "general"] :
      t \in {"balance_inquiry", "recharge", "unknown", "balance"},
      k \in 0..2, n \in 1..MaxLength }

ScenarioMessages ==
  { Str(""), Str(" "), Str("hi"), Str(" hi "), Str("SOLDE please"),
    Str("solde please"), Str("quel est mon solde"), Str("credit") }

CreatePool ==
  { [intent |-> "balance_inquiry",
     keywords |-> << Str("credit"), Str("solde") >>,
     responseAr |-> "ar: balance (2)",
     responseFr |-> "fr: balance (2)",
     category |-> "balance",
     isActive |-> TRUE],
    [intent |-> "roaming",
     keywords |-> << Str("e"), Str(" ") >>,
     responseAr |-> "ar: roaming",
     responseFr |-> "fr: roaming",
     category |-> "offers",
     isActive |-> TRUE] }

UpdatePool ==
  { [isActive |-> FALSE],
    [isActive |-> TRUE],
    [keywords |-> << Str("credit") >>] }

(***************************************************************************)
(* Operations                                                              *)
(***************************************************************************)
NoCall ==
  [op |-> "none", id |-> 0, text |-> <<>>, language |-> "ar",
   intent |-> UnknownIntent, reply |-> Null]

\* the second request slot: a call of POST /api/analyze-intent with the
\* array its catalog read returned (const responses)
NoProbe == [op |-> "none", text |-> <<>>, responses |-> <<>>,
            intent |-> UnknownIntent]

\* a value that is absent: an unset field, a missing query parameter, a
\* Map lookup that finds nothing
Undefined == "<undefined>"

\* the requests in flight on the message route and the Messenger webhook:
\* each slot holds one request, suspended at one of its awaits
Procs == {"a", "b"}

\* a slot with no request: kind and pc say which handler runs and at which
\* await it is suspended; events is the webhook batch and k the event being
\* handled; conversation, text, sender, language and reply are the handler's
\* locals; delivery is what the last call of sendFacebookMessage came to;
\* status is the HTTP status answered
Idle ==
  [kind |-> "none", pc |-> "idle", events |-> <<>>, k |-> 0,
   conversation |-> 0, text |-> <<>>, sender |-> "user", language |-> "ar",
   reply |-> Null, delivery |-> "none", status |-> 0]

NoRequests == [p \in Procs |-> Idle]

\* the days a request can fall on; the server is constructed on the first
Days == {"2026-01-01", "2026-01-02"}

StartDay == "2026-01-01"

\* this.chatStats after initializeTodayStats: one record, keyed by its date
InitialChatStats ==
  << [date |-> StartDay,
      totalConversations |-> "324",
      resolvedQueries |-> "289",
      balanceInquiries |-> "156",
      averageResponses |-> "2.3"] >>

\* this.facebookSettings before the first update: undefined.  The variable
\* holds no element then, and the one settings object afterwards.
NoSettings == <<>>

\* the answer of the last settings, verification or statistics request: the
\* handler that ran, what it was asked, the status, and the body (a text, or
\* the objects of a JSON body).  n counts the requests answered.
NoAnswer ==
  [n |-> 0, route |-> "none", query |-> <<>>, status |-> 0,
   text |-> Undefined, json |-> <<>>]

Init ==
  /\ botResponses = InitialBotResponses
  /\ nextId = Len(InitialBotResponses) + 1
  /\ ops = 0
  /\ call = NoCall
  /\ conversations = <<>>
  /\ sent = <<>>
  /\ probe = NoProbe
  /\ requests = NoRequests
  /\ facebookSettings = NoSettings
  /\ chatStats = InitialChatStats
  /\ answer = NoAnswer

\* POST /api/bot-responses
CreateBotResponse(response) ==
  /\ ops < MaxOps
  /\ botResponses' = createBotResponse(botResponses, nextId, response)
  /\ nextId' = nextId + 1
  /\ ops' = ops + 1
  /\ UNCHANGED <<call, conversations, sent, probe,
               requests, admin>>

\* PUT /api/bot-responses/:id
UpdateBotResponse(id, updates) ==
  /\ ops < MaxOps
  /\ botResponses' = updateBotResponse(botResponses, id, updates)
  /\ ops' = ops + 1
  /\ UNCHANGED <<nextId, call, conversations, sent, probe,
               requests, admin>>

\* DELETE /api/bot-responses/:id
DeleteBotResponse(id) ==
  /\ ops < MaxOps
  /\ botResponses' = deleteBotResponse(botResponses, id)
  /\ ops' = ops + 1
  /\ UNCHANGED <<nextId, call, conversations, sent, probe,
               requests, admin>>

\* const intent = await analyzeIntent(text)
AnalyzeIntent(text) ==
  /\ call.op = "none"
  /\ call' = IF analyzeIntent_raises(text, botResponses)
             THEN [NoCall EXCEPT !.op = "analyzeIntent.error", !.text = text]
             ELSE [op |-> "analyzeIntent", id |-> 0, text |-> text,
                   language |-> "ar",
                   intent |-> analyzeIntent(text, botResponses),
                   reply |-> Null]
  /\ UNCHANGED <<botResponses, nextId, ops, conversations, sent, probe,
               requests, admin>>

\* const response = await generateBotResponse(intent, language)
GenerateBotResponse(intent, language) ==
  /\ call.op \in {"none", "analyzeIntent"}
  /\ call' = [call EXCEPT !.op = "generateBotResponse",
                          !.language = language,
                          !.intent = intent,
                          !.reply = generateBotResponse(intent, language, botResponses)]
  /\ UNCHANGED <<botResponses, nextId, ops, conversations, sent, probe,
               requests, admin>>

\* the reply to the intent the same request has just classified
ReplyToAnalyzed(language) ==
  /\ call.op = "analyzeIntent"
  /\ GenerateBotResponse(call.intent, language)

BotAnalyzeIntent(message) ==
  /\ call.op = "none"
  /\ call' = [op |-> "bot.analyzeIntent", id |-> 0, text |-> message, language |-> "ar",
              intent |-> MobilisChatBot_analyzeIntent(message), reply |-> Null]
  /\ UNCHANGED <<botResponses, nextId, ops, conversations, sent, probe,
               requests, admin>>

BotGenerateResponse(intent, language) ==
  /\ call.op \in {"none", "bot.analyzeIntent"}
  /\ call' = [call EXCEPT !.op = "bot.generateResponse",
                          !.language = language,
                          !.intent = intent,
                          !.reply = MobilisChatBot_generateResponse(intent, language)]
  /\ UNCHANGED <<botResponses, nextId, ops, conversations, sent, probe,
               requests, admin>>

BotReplyToAnalyzed(language) ==
  /\ call.op = "bot.analyzeIntent"
  /\ BotGenerateResponse(call.intent, language)

\* the caller has its answer; the next call starts afresh
Return ==
  /\ call.op # "none"
  /\ call' = NoCall
  /\ UNCHANGED <<botResponses, nextId, ops, conversations, sent, probe,
               requests, admin>>

Next ==
  \/ \E response \in CreatePool : CreateBotResponse(response)
  \/ \E id \in 1..(nextId - 1), updates \in UpdatePool : UpdateBotResponse(id, updates)
  \/ \E id \in 1..(nextId - 1) : DeleteBotResponse(id)
  \/ \E text \in ScenarioMessages : AnalyzeIntent(text)
  \/ \E language \in Languages : ReplyToAnalyzed(language)
  \/ \E message \in ScenarioMessages : BotAnalyzeIntent(message)
  \/ \E language \in Languages : BotReplyToAnalyzed(language)
  \/ Return

Spec == Init /\ [][Next]_vars

\* Classification of every short message under every small catalog.
\* MobilisChatBot never reads the store, so its calls are run under one
\* catalog only, the default one.
InitClassify ==
  /\ botResponses \in Catalogs \cup {InitialBotResponses} \cup MalformedCatalogs
  /\ nextId = Len(botResponses) + 1
  /\ ops = 0
  /\ call = NoCall
  /\ conversations = <<>>
  /\ sent = <<>>
  /\ probe = NoProbe
  /\ requests = NoRequests
  /\ facebookSettings = NoSettings
  /\ chatStats = InitialChatStats
  /\ answer = NoAnswer

NextClassify ==
  \/ \E text \in Messages : AnalyzeIntent(text)
  \/ /\ botResponses = InitialBotResponses
     /\ \E message \in Messages \cup ScenarioMessages : BotAnalyzeIntent(message)
  \/ Return

SpecClassify == InitClassify /\ [][NextClassify]_vars

\* Reply resolution of every service intent under every small catalog
InitReply ==
  /\ botResponses \in ReplyCatalogs
  /\ nextId = Len(botResponses) + 1
  /\ ops = 0
  /\ call = NoCall
  /\ conversations = <<>>
  /\ sent = <<>>
  /\ probe = NoProbe
  /\ requests = NoRequests
  /\ facebookSettings = NoSettings
  /\ chatStats = InitialChatStats
  /\ answer = NoAnswer

NextReply ==
  \/ \E intent \in ServiceIntents, language \in Languages :
       GenerateBotResponse(intent, language)
  \/ \E intent \in ServiceIntents, language \in Languages :
       BotGenerateResponse(intent, language)
  \/ Return

SpecReply == InitReply /\ [][NextReply]_vars

(***************************************************************************)
(* Message requests                                                        *)
(*                                                                         *)
(* A request is suspended at each await of a storage call (IStorage is an  *)
(* asynchronous interface), and other requests run in between.  The steps  *)
(* of a message request are the store accesses that can see one another:   *)
(* the catalog read of the classification and the catalog read of the      *)
(* reply lookup.                                                           *)
(***************************************************************************)
MaxConversations == 1

MaxMessages == 1

\* catalog writes that run beside the message requests
MaxWrites == 1

NoLanguage == "undefined"

ChatMessages == { Str("credit"), Str("hi") }

Senders == {"user", "bot"}

Users == {"web"}

Psids == {"psid"}

\* an entry whose French reply text is empty
ChatCreatePool ==
  { [intent |-> "roaming",
     keywords |-> << Str("hi") >>,
     responseAr |-> "ar: roaming",
     responseFr |-> "",
     category |-> "general",
     isActive |-> TRUE] }

ChatUpdatePool == { [isActive |-> FALSE] }

\* the entries written beside the message requests: the two default
\* entries that own the keyword "credit"
ChatIds == {1, 2}

RECURSIVE CountMessages(_)
CountMessages(convs) ==
  IF convs = <<>> THEN 0
  ELSE Len(convs[1].messages) + CountMessages(Tail(convs))

OrAr_DefaultFr(language) == IF language = NoLanguage THEN "fr" ELSE language

\* language || 'ar'
OrAr(language) == IF language = NoLanguage THEN "ar" ELSE language

Truthy_Always(response) == TRUE

\* if (response): null and the empty string are falsy
Truthy(response) == response # Null /\ response # ""

\* POST /api/conversations
CreateConversation(userId) ==
  /\ Len(conversations) < MaxConversations
  /\ conversations' = createConversation(conversations,
                         [userId |-> userId, platform |-> "web",
                          messages |-> <<>>, isActive |-> TRUE])
  /\ UNCHANGED <<botResponses, nextId, ops, call, sent, probe,
               requests, admin>>

\* POST /api/conversations/:id/messages, up to the classification
PostMessage(id, text, sender, language) ==
  /\ call.op = "none"
  /\ CountMessages(conversations) < MaxMessages
  /\ IF ~HasConversation(conversations, id)
     THEN /\ call' = [NoCall EXCEPT !.op = "message.notFound", !.id = id,
                                    !.text = text, !.language = language]
          /\ UNCHANGED conversations
     ELSE /\ conversations' =
               addMessageToConversation(conversations, id,
                 [text |-> text, sender |-> sender, language |-> language])
          /\ call' = IF sender = "user"
                     THEN [op |-> "message.analyzeIntent", id |-> id,
                           text |-> text, language |-> language,
                           intent |-> analyzeIntent(text, botResponses),
                           reply |-> Null]
                     ELSE [NoCall EXCEPT !.op = "message.done", !.id = id,
                                         !.text = text, !.language = language]
  /\ UNCHANGED <<botResponses, nextId, ops, sent, probe,
               requests, admin>>

\* the same request, from the reply lookup to res.json
MessageReply ==
  /\ call.op = "message.analyzeIntent"
  /\ LET response ==
          generateBotResponse(call.intent, OrAr(call.language), botResponses)
     IN /\ conversations' =
             IF Truthy(response)
             THEN addMessageToConversation(conversations, call.id,
                    [text |-> response, sender |-> "bot",
                     language |-> call.language])
             ELSE conversations
        /\ call' = [call EXCEPT !.op = "message.done", !.reply = response]
  /\ UNCHANGED <<botResponses, nextId, ops, sent, probe,
               requests, admin>>

\* handleFacebookMessage, up to the classification
FacebookMessage(senderId, messageText) ==
  /\ call.op = "none"
  /\ CountMessages(conversations) < MaxMessages
  /\ LET found == getConversationByUserId(conversations, senderId)
         convs == IF found = 0
                  THEN createConversation(conversations,
                         [userId |-> senderId, platform |-> "messenger",
                          messages |-> <<>>, isActive |-> TRUE])
                  ELSE conversations
         id == IF found = 0 THEN convs[Len(convs)].id ELSE found
     IN /\ found = 0 => Len(conversations) < MaxConversations
        /\ conversations' =
             addMessageToConversation(convs, id,
               [text |-> messageText, sender |-> "user", language |-> "ar"])
        /\ call' = [op |-> "facebook.analyzeIntent", id |-> id,
                    text |-> messageText, language |-> "ar",
                    intent |-> analyzeIntent(messageText, botResponses),
                    reply |-> Null]
  /\ UNCHANGED <<botResponses, nextId, ops, sent, probe,
               requests, admin>>

\* handleFacebookMessage, from the reply lookup to sendFacebookMessage
FacebookReply ==
  /\ call.op = "facebook.analyzeIntent"
  /\ LET botResponseText == generateBotResponse(call.intent, "ar", botResponses)
     IN /\ conversations' =
             IF Truthy(botResponseText)
             THEN addMessageToConversation(conversations, call.id,
                    [text |-> botResponseText, sender |-> "bot",
                     language |-> "ar"])
             ELSE conversations
        /\ sent' = IF Truthy(botResponseText)
                   THEN Append(sent, [recipient |-> conversations[call.id].userId,
                                      text |-> botResponseText])
                   ELSE sent
        /\ call' = [call EXCEPT !.op = "facebook.done",
                                !.reply = botResponseText]
  /\ UNCHANGED <<botResponses, nextId, ops, probe,
               requests, admin>>

ProbeIntent_WritesBack(text) ==
  /\ probe.op = "none"
  /\ probe' = [op |-> "analyzeIntent", text |-> text,
               responses |-> getAllBotResponses(botResponses),
               intent |-> analyzeIntent(text, botResponses)]
  /\ botResponses' = getAllBotResponses(botResponses)
  /\ UNCHANGED <<nextId, ops, call, conversations, sent,
               requests, admin>>

\* POST /api/analyze-intent, served while a message request is under way
ProbeIntent(text) ==
  /\ probe.op = "none"
  /\ probe' = [op |-> "analyzeIntent", text |-> text,
               responses |-> getAllBotResponses(botResponses),
               intent |-> analyzeIntent(text, botResponses)]
  /\ UNCHANGED <<botResponses, nextId, ops, call, conversations, sent,
               requests, admin>>

\* res.json(intent)
ProbeReturn ==
  /\ probe.op # "none"
  /\ probe' = NoProbe
  /\ UNCHANGED <<botResponses, nextId, ops, call, conversations, sent,
               requests, admin>>

NextChat ==
  \/ \E userId \in Users : CreateConversation(userId)
  \/ \E id \in 1..(Len(conversations) + 1), text \in ChatMessages,
        sender \in Senders, language \in Languages \cup {NoLanguage} :
       PostMessage(id, text, sender, language)
  \/ MessageReply
  \/ \E senderId \in Psids, messageText \in ChatMessages :
       FacebookMessage(senderId, messageText)
  \/ FacebookReply
  \/ /\ ops < MaxWrites
     /\ \E response \in ChatCreatePool : CreateBotResponse(response)
  \/ /\ ops < MaxWrites
     /\ \E id \in ChatIds, updates \in ChatUpdatePool :
          UpdateBotResponse(id, updates)
  \/ /\ ops < MaxWrites
     /\ \E id \in ChatIds : DeleteBotResponse(id)
  \/ Return
  \/ \E text \in ChatMessages : ProbeIntent(text)
  \/ ProbeReturn

SpecChat == Init /\ [][NextChat]_vars

(***************************************************************************)
(* Settings, webhook verification and statistics routes                    *)
(***************************************************************************)
MaxRequests == 3

\* the bodies POST /api/facebook-settings accepts, as far as the tokens go:
\* both columns are nullable and optional
SettingsPool ==
  { [pageAccessToken |-> t, verifyToken |-> v] :
      t \in {Undefined, "page-token"},
      v \in {Undefined, Null, "", "secret"} }

\* the query parameters of a verification request; a parameter that is
\* absent is undefined
HubModes == {Undefined, "subscribe", "unsubscribe"}

HubTokens == {Undefined, "", "secret", "wrong"}

HubChallenges == {"c1", "c2"}

\* MemStorage.updateFacebookSettings: the new object replaces the old one
\* whole; a field the body does not carry is absent from it
updateFacebookSettings(settings) == << settings >>

\* settings && token === settings.verifyToken
TokenAccepted(settings, token) ==
  /\ settings # NoSettings
  /\ token = settings[1].verifyToken

\* FacebookMessengerAPI.verifyWebhook
verifyWebhook(verifyToken, hubMode, hubVerifyToken, hubChallenge) ==
  IF hubMode = "subscribe" /\ hubVerifyToken = verifyToken
  THEN hubChallenge
  ELSE Null

\* MemStorage.getChatStats: the record stored under the date, if any
getChatStats(stats, date) ==
  SelectSeq(stats, LAMBDA record : record.date = date)

\* the two statistics routes, in the order registerRoutes registers them
StatsRoutes == << ":date", "today" >>

\* Express matches a path segment against a route's last segment: a
\* parameter takes any segment, a literal only itself
RouteMatches(pattern, segment) == pattern = ":date" \/ pattern = segment

\* Express hands the request to the first registered route that matches
Dispatch(segment) ==
  LET matching == {i \in 1..Len(StatsRoutes) :
                     RouteMatches(StatsRoutes[i], segment)}
  IN StatsRoutes[CHOOSE i \in matching : \A k \in matching : i <= k]

\* the path segments requested after /api/stats/
Segments == {"today"} \cup Days

\* POST /api/facebook-settings
UpdateFacebookSettings(settings) ==
  /\ answer.n < MaxRequests
  /\ facebookSettings' = updateFacebookSettings(settings)
  /\ answer' = [n |-> answer.n + 1, route |-> "POST /api/facebook-settings",
                query |-> <<>>, status |-> 200, text |-> Undefined,
                json |-> updateFacebookSettings(settings)]
  /\ UNCHANGED <<botResponses, nextId, ops, call, conversations, sent, probe,
                 requests, chatStats>>

\* GET /webhook/messenger
VerifyWebhook(mode, token, challenge) ==
  /\ answer.n < MaxRequests
  /\ answer' =
       [n |-> answer.n + 1, route |-> "GET /webhook/messenger",
        query |-> [mode |-> mode, token |-> token, challenge |-> challenge],
        status |-> IF mode # "subscribe" THEN 400
                   ELSE IF TokenAccepted(facebookSettings, token) THEN 200
                   ELSE 403,
        text |-> IF mode # "subscribe" THEN "Bad Request"
                 ELSE IF TokenAccepted(facebookSettings, token) THEN challenge
                 ELSE "Forbidden",
        json |-> <<>>]
  /\ UNCHANGED <<botResponses, nextId, ops, call, conversations, sent, probe,
                 requests, facebookSettings, chatStats>>

\* a call of FacebookMessengerAPI.verifyWebhook with a configured token
ApiVerifyWebhook(verifyToken, mode, token, challenge) ==
  /\ answer.n < MaxRequests
  /\ answer' =
       [n |-> answer.n + 1, route |-> "verifyWebhook",
        query |-> [mode |-> mode, token |-> token, challenge |-> challenge,
                   verifyToken |-> verifyToken],
        status |-> 0,
        text |-> verifyWebhook(verifyToken, mode, token, challenge),
        json |-> <<>>]
  /\ UNCHANGED <<botResponses, nextId, ops, call, conversations, sent, probe,
                 requests, facebookSettings, chatStats>>

\* GET /api/stats/<segment>, received on the day now
GetStats(segment, now) ==
  /\ answer.n < MaxRequests
  /\ answer' =
       [n |-> answer.n + 1,
        route |-> IF Dispatch(segment) = ":date"
                  THEN "GET /api/stats/:date" ELSE "GET /api/stats/today",
        query |-> [segment |-> segment, now |-> now],
        status |-> 200, text |-> Undefined,
        json |-> IF Dispatch(segment) = ":date"
                 THEN getChatStats(chatStats, segment)
                 ELSE getChatStats(chatStats, now)]
  /\ UNCHANGED <<botResponses, nextId, ops, call, conversations, sent, probe,
                 requests, facebookSettings, chatStats>>

NextAdmin ==
  \/ \E settings \in SettingsPool : UpdateFacebookSettings(settings)
  \/ \E mode \in HubModes, token \in HubTokens, challenge \in HubChallenges :
       VerifyWebhook(mode, token, challenge)
  \/ \E verifyToken \in {"", "secret"}, mode \in HubModes \ {Undefined},
        token \in HubTokens \ {Undefined}, challenge \in HubChallenges :
       ApiVerifyWebhook(verifyToken, mode, token, challenge)
  \/ \E segment \in Segments, now \in Days : GetStats(segment, now)

SpecAdmin == Init /\ [][NextAdmin]_vars

(***************************************************************************)
(* Requests in flight together: the message route and the Messenger        *)
(* webhook, each suspended at its awaits                                   *)
(***************************************************************************)
\* the messaging events the webhook requests in flight bring, all together
MaxEvents == 3

\* the messages of the requests that run together: one a keyword of the
\* catalog, one that matches nothing
WebhookTexts == { Str("credit") }

PostedTexts == { Str("hi") }

PostedLanguages == { NoLanguage }

\* the messaging events of a webhook body that carry a message
Events == { [senderId |-> s, text |-> t] : s \in Psids, t \in WebhookTexts }

RECURSIVE Batches(_)
Batches(n) ==
  IF n = 0 THEN { <<>> }
  ELSE Batches(n - 1)
         \cup { Append(b, e) : b \in Batches(n - 1), e \in Events }

\* the settings saved while the requests run: those of a page that is set up
DeliverySettings ==
  { s \in SettingsPool : s.pageAccessToken = "page-token"
                          /\ s.verifyToken = "secret" }

\* crypto.randomUUID(): an id no other message has.  It names the request,
\* the event of its batch, and whether the message is the one the request
\* brings or the reply to it.
MessageId(p, k, role) == <<p, k, role>>

\* what the Graph API call can come to: a response that is ok, a response
\* that is not, a fetch that rejects
FetchOutcomes == {"ok", "notOk", "rejected"}

sendFacebookMessage_raises_Uncaught(outcome) == outcome # "ok"

\* sendFacebookMessage raises for an outcome that throws outside its try
\* block; the rejected fetch and the Error thrown for a response that is not
\* ok are both inside it
sendFacebookMessage_raises(outcome) ==
  outcome # "ok" /\ outcome \notin {"notOk", "rejected"}

\* !settings || !settings.pageAccessToken
NotConfigured(settings) ==
  \/ settings = NoSettings
  \/ settings[1].pageAccessToken \in {Undefined, Null, ""}

\* handleFacebookMessage from its call to its first await: the lookup of
\* the sender's conversation
StartEvent(r, k, convs) ==
  [r EXCEPT !.k = k,
            !.text = r.events[k].text,
            !.conversation = getConversationByUserId(convs, r.events[k].senderId),
            !.reply = Null,
            !.pc = "getConversation"]

\* the end of handleFacebookMessage for the event k: the loop of the route
\* goes on to the next event, or the route answers 200 EVENT_RECEIVED
EndEvent(r, convs) ==
  IF r.k < Len(r.events)
  THEN StartEvent(r, r.k + 1, convs)
  ELSE [r EXCEPT !.pc = "done", !.status = 200]

RECURSIVE CountEvents(_, _)
CountEvents(reqs, ps) ==
  IF ps = {} THEN 0
  ELSE LET p == CHOOSE q \in ps : TRUE
       IN Len(reqs[p].events) + CountEvents(reqs, ps \ {p})

\* POST /webhook/messenger with body.object === "page"
ReceiveWebhook(p, events) ==
  /\ requests[p].pc = "idle"
  /\ CountEvents(requests, Procs) + Len(events) <= MaxEvents
  /\ requests' = [requests EXCEPT ![p] =
       StartEvent([Idle EXCEPT !.kind = "webhook", !.events = events],
                  1, conversations)]
  /\ UNCHANGED <<botResponses, nextId, ops, call, conversations, sent, probe,
                 admin>>

\* if (!conversation) createConversation(...)
FbCreateConversation(p) ==
  /\ requests[p].pc = "getConversation"
  /\ requests[p].conversation = 0
  /\ conversations' =
       createConversation(conversations,
         [userId |-> requests[p].events[requests[p].k].senderId,
          platform |-> "messenger", messages |-> <<>>, isActive |-> TRUE])
  /\ requests' = [requests EXCEPT ![p].conversation = Len(conversations) + 1,
                                  ![p].pc = "createConversation"]
  /\ UNCHANGED <<botResponses, nextId, ops, call, sent, probe, admin>>

\* addMessageToConversation(conversation.id, userMessage)
FbAddUserMessage(p) ==
  /\ \/ requests[p].pc = "getConversation" /\ requests[p].conversation # 0
     \/ requests[p].pc = "createConversation"
  /\ conversations' =
       addMessageToConversation(conversations, requests[p].conversation,
         [id |-> MessageId(p, requests[p].k, "message"),
          text |-> requests[p].text, sender |-> "user", language |-> "ar"])
  /\ requests' = [requests EXCEPT ![p].pc = "addUserMessage"]
  /\ UNCHANGED <<botResponses, nextId, ops, call, sent, probe, admin>>

\* analyzeIntent(messageText) and generateBotResponse(intent, 'ar')
FbClassify(p) ==
  /\ requests[p].pc = "addUserMessage"
  /\ requests[p].kind = "webhook"
  /\ LET r == requests[p]
         botResponseText ==
           generateBotResponse(analyzeIntent(r.text, botResponses), "ar",
                               botResponses)
     IN requests' = [requests EXCEPT ![p] =
          IF Truthy(botResponseText)
          THEN [r EXCEPT !.reply = botResponseText,
                         !.pc = "generateBotResponse"]
          ELSE EndEvent(r, conversations)]
  /\ UNCHANGED <<botResponses, nextId, ops, call, conversations, sent, probe,
                 admin>>

\* addMessageToConversation(conversation.id, botMessage)
FbAddBotMessage(p) ==
  /\ requests[p].pc = "generateBotResponse"
  /\ requests[p].kind = "webhook"
  /\ conversations' =
       addMessageToConversation(conversations, requests[p].conversation,
         [id |-> MessageId(p, requests[p].k, "reply"),
          text |-> requests[p].reply, sender |-> "bot", language |-> "ar"])
  /\ requests' = [requests EXCEPT ![p].pc = "addBotMessage"]
  /\ UNCHANGED <<botResponses, nextId, ops, call, sent, probe, admin>>

\* sendFacebookMessage up to the Graph API call: without settings or a page
\* access token it logs and returns
FbSend(p) ==
  /\ requests[p].pc = "addBotMessage"
  /\ requests[p].kind = "webhook"
  /\ LET r == requests[p]
     IN IF NotConfigured(facebookSettings)
        THEN /\ requests' = [requests EXCEPT ![p] =
                  EndEvent([r EXCEPT !.delivery = "notConfigured"],
                           conversations)]
             /\ sent' = sent
        ELSE /\ requests' = [requests EXCEPT ![p].pc = "fetch"]
             /\ sent' = Append(sent,
                          [recipient |-> r.events[r.k].senderId,
                           text |-> r.reply])
  /\ UNCHANGED <<botResponses, nextId, ops, call, conversations, probe,
                 admin>>

\* the Graph API call returns, or fails
FbFetched(p, outcome) ==
  /\ requests[p].pc = "fetch"
  /\ LET r == [requests[p] EXCEPT !.delivery = outcome]
     IN requests' = [requests EXCEPT ![p] =
          IF sendFacebookMessage_raises(outcome)
          THEN [r EXCEPT !.pc = "done", !.status = 500]
          ELSE EndEvent(r, conversations)]
  /\ UNCHANGED <<botResponses, nextId, ops, call, conversations, sent, probe,
                 admin>>

\* POST /api/conversations/:id/messages up to its first await
MsgPost(p, id, text, sender, language) ==
  /\ requests[p].pc = "idle"
  /\ LET r == [Idle EXCEPT !.kind = "message", !.k = 1, !.conversation = id,
                           !.text = text, !.sender = sender,
                           !.language = language]
     IN IF ~HasConversation(conversations, id)
        THEN /\ requests' = [requests EXCEPT ![p] =
                  [r EXCEPT !.pc = "done", !.status = 404]]
             /\ UNCHANGED conversations
        ELSE /\ conversations' =
                  addMessageToConversation(conversations, id,
                    [id |-> MessageId(p, 1, "message"), text |-> text,
                     sender |-> sender, language |-> language])
             /\ requests' = [requests EXCEPT ![p] =
                  [r EXCEPT !.pc = "addUserMessage"]]
  /\ UNCHANGED <<botResponses, nextId, ops, call, sent, probe, admin>>

\* the same request after the message is stored: a bot message is answered
\* at once, a user message is classified and its reply looked up
MsgClassify(p) ==
  /\ requests[p].pc = "addUserMessage"
  /\ requests[p].kind = "message"
  /\ LET r == requests[p]
         response ==
           generateBotResponse(analyzeIntent(r.text, botResponses),
                               OrAr(r.language), botResponses)
     IN requests' = [requests EXCEPT ![p] =
          IF r.sender # "user"
          THEN [r EXCEPT !.pc = "done", !.status = 200]
          ELSE IF Truthy(response)
          THEN [r EXCEPT !.reply = response, !.pc = "generateBotResponse"]
          ELSE [r EXCEPT !.pc = "done", !.status = 200]]
  /\ UNCHANGED <<botResponses, nextId, ops, call, conversations, sent, probe,
                 admin>>

\* addMessageToConversation(id, botMessage) and res.json
MsgAddBotMessage(p) ==
  /\ requests[p].pc = "generateBotResponse"
  /\ requests[p].kind = "message"
  /\ LET r == requests[p]
     IN /\ conversations' =
             addMessageToConversation(conversations, r.conversation,
               [id |-> MessageId(p, 1, "reply"), text |-> r.reply,
                sender |-> "bot", language |-> r.language])
        /\ requests' = [requests EXCEPT ![p] =
             [r EXCEPT !.pc = "done", !.status = 200]]
  /\ UNCHANGED <<botResponses, nextId, ops, call, sent, probe, admin>>

NextRequests ==
  \/ \E p \in Procs, events \in Batches(MaxEvents) \ { <<>> } :
       ReceiveWebhook(p, events)
  \/ \E p \in Procs : FbCreateConversation(p)
  \/ \E p \in Procs : FbAddUserMessage(p)
  \/ \E p \in Procs : FbClassify(p)
  \/ \E p \in Procs : FbAddBotMessage(p)
  \/ \E p \in Procs : FbSend(p)
  \/ \E p \in Procs, outcome \in FetchOutcomes : FbFetched(p, outcome)
  \/ \E p \in Procs, id \in 1..(Len(conversations) + 1),
        text \in PostedTexts, sender \in Senders,
        language \in PostedLanguages :
       MsgPost(p, id, text, sender, language)
  \/ \E p \in Procs : MsgClassify(p)
  \/ \E p \in Procs : MsgAddBotMessage(p)
  \/ /\ facebookSettings = NoSettings
     /\ \E settings \in DeliverySettings : UpdateFacebookSettings(settings)

SpecRequests == Init /\ [][NextRequests]_vars

(***************************************************************************)
(* Properties                                                              *)
(***************************************************************************)
\* The normalization the specification prescribes: lower-cased and trimmed.
Normalized(message) == Trim(ToLowerCase(message))

\* The <<entry, keyword>> positions of the active entries of a store
KeywordPositions(store) ==
  UNION { { <<i, j>> : j \in 1..Len(store[i].keywords) } :
          i \in { k \in 1..Len(store) : store[k].isActive } }

\* ... whose keyword is a substring of the normalized message
MatchingPositions(store, message) ==
  { p \in KeywordPositions(store) :
      Includes(Normalized(message), ToLowerCase(store[p[1]].keywords[p[2]])) }

\* ... whose keyword the route helper finds in the message it scans
ScannedPositions(store, text) ==
  { p \in KeywordPositions(store) :
      KeywordMatches(normalizeText(text), store[p[1]].keywords[p[2]]) }

KeywordAt(store, p) == store[p[1]].keywords[p[2]]

InUnitInterval(c) == ~IsNaN(c) /\ c.den > 0 /\ 0 <= c.num /\ c.num <= c.den

Analyzed == call.op \in {"analyzeIntent", "bot.analyzeIntent"}

\* C1: for a non-empty message of which some keyword of an active entry is
\* a substring after normalization, analyzeIntent returns a confidence
\* above 0 and the intent of an entry that owns a longest matching keyword.
\* Stated for the catalogs without an empty keyword; an empty keyword
\* matches every message at confidence 0 and would refute it by itself.
C1_LongestMatchingKeywordWins ==
  LET matching == MatchingPositions(botResponses, call.text)
  IN (/\ call.op = "analyzeIntent"
      /\ call.text # <<>>
      /\ matching # {}
      /\ \A p \in KeywordPositions(botResponses) : KeywordAt(botResponses, p) # <<>>)
     => /\ GreaterThan(call.intent.confidence, Zero)
        /\ \E p \in matching :
             /\ botResponses[p[1]].intent = call.intent.intent
             /\ \A q \in matching :
                  Len(KeywordAt(botResponses, q)) <= Len(KeywordAt(botResponses, p))

\* C2: for the empty message both classifiers return exactly
\* {unknown, 0, general}, whatever the catalog holds, an empty keyword
\* included.
C2_EmptyMessageIsUnknown ==
  (Analyzed /\ call.text = <<>>) => call.intent = UnknownIntent

\* an empty message was classified by the route helper against a catalog
\* with an active empty keyword
C2_Witness ==
  /\ call.op = "analyzeIntent"
  /\ call.text = <<>>
  /\ \E p \in KeywordPositions(botResponses) : KeywordAt(botResponses, p) = <<>>
  /\ call.intent = UnknownIntent

\* some keyword of the fixed table is a substring of the normalized message
BotMatching(message) ==
  \E i \in 1..Len(predefinedIntents) :
    \E j \in 1..Len(predefinedIntents[i].keywords) :
      Includes(Normalized(message), ToLowerCase(predefinedIntents[i].keywords[j]))

UnknownMessage(language) == IF language = "ar" THEN UnknownAr ELSE UnknownFr

\* C6: a message of which no keyword of an active entry is a substring
\* after normalization is classified {unknown, 0, general}, and the reply
\* to that result is the unknown message of the requested language.
C6_NoMatchIsUnknown ==
  [][ /\ (/\ call.op = "none"
          /\ call'.op = "analyzeIntent"
          /\ MatchingPositions(botResponses, call'.text) = {})
         => call'.intent = UnknownIntent
      /\ (/\ call.op = "none"
          /\ call'.op = "bot.analyzeIntent"
          /\ ~BotMatching(call'.text))
         => call'.intent = UnknownIntent
      /\ (/\ call.op = "analyzeIntent"
          /\ call'.op = "generateBotResponse"
          /\ call.intent = UnknownIntent)
         => call'.reply = UnknownMessage(call'.language)
      /\ (/\ call.op = "bot.analyzeIntent"
          /\ call'.op = "bot.generateResponse"
          /\ call.intent = UnknownIntent)
         => call'.reply = responses[call'.language].unknown ]_vars

\* C8: the confidence of every classification result lies in [0, 1].
C8_ConfidenceInUnitInterval ==
  Analyzed => InUnitInterval(call.intent.confidence)

\* C9: a message that is empty after normalization (empty, or blanks only)
\* is classified {unknown, 0, general} under every catalog.
C9_BlankMessageIsUnknown ==
  (Analyzed /\ Normalized(call.text) = <<>>) => call.intent = UnknownIntent

\* The scanned positions whose keyword is longest, i.e. scores highest
BestPositions(store, text) ==
  LET scanned == ScannedPositions(store, text)
  IN { p \in scanned :
         /\ Len(KeywordAt(store, p)) > 0
         /\ \A q \in scanned : Len(KeywordAt(store, q)) <= Len(KeywordAt(store, p)) }

FirstSeenWins(store, text, intent) ==
  LET best == BestPositions(store, text)
  IN best # {}
     => \E p \in best :
          /\ intent.intent = store[p[1]].intent
          /\ \A q \in best : store[p[1]].id <= store[q[1]].id

\* The positions of the fixed table whose keyword MobilisChatBot finds in
\* the message and which is longest
BotBestPositions(message) ==
  LET scanned ==
        { p \in UNION { { <<i, j>> : j \in 1..Len(predefinedIntents[i].keywords) } :
                        i \in 1..Len(predefinedIntents) } :
            Includes(Trim(ToLowerCase(message)),
                     ToLowerCase(predefinedIntents[p[1]].keywords[p[2]])) }
  IN { p \in scanned :
         \A q \in scanned : Len(predefinedIntents[q[1]].keywords[q[2]])
                              <= Len(predefinedIntents[p[1]].keywords[p[2]]) }

BotFirstSeenWins(message, intent) ==
  LET best == BotBestPositions(message)
  IN best # {}
     => \E p \in best :
          /\ intent.intent = predefinedIntents[p[1]].name
          /\ \A q \in best : p[1] <= q[1]

\* C3: among the entries whose best matching keyword scores highest,
\* analyzeIntent returns the one inserted first (the smallest id), in every
\* catalog that create, update and delete operations lead to; MobilisChatBot
\* returns the first such entry of its table.
C3_FirstSeenWins ==
  [][ /\ (call.op = "none" /\ call'.op = "analyzeIntent")
         => FirstSeenWins(botResponses, call'.text, call'.intent)
      /\ (call.op = "none" /\ call'.op = "bot.analyzeIntent")
         => BotFirstSeenWins(call'.text, call'.intent) ]_vars

\* After changes to the catalog, two entries of different intents tie, the
\* later one created by a request, and the earlier one is returned.
C3_Witness ==
  /\ call.op = "analyzeIntent"
  /\ ops > 0
  /\ call.intent = analyzeIntent(call.text, botResponses)
  /\ \E p, q \in BestPositions(botResponses, call.text) :
       /\ botResponses[p[1]].id < botResponses[q[1]].id
       /\ botResponses[q[1]].id > Len(defaultResponses)
       /\ botResponses[p[1]].intent # botResponses[q[1]].intent
       /\ call.intent.intent = botResponses[p[1]].intent

QuelEstMonSolde == Str("quel est mon solde")

RoundTripSolde(confidence) ==
  (ops = 0 /\ call.text = QuelEstMonSolde)
  => /\ call.op \in {"analyzeIntent", "generateBotResponse"}
        => /\ call.intent.intent = "balance_inquiry"
           /\ call.intent.confidence = confidence
     /\ (call.op = "generateBotResponse" /\ call.language = "fr")
        => call.reply = defaultResponses[1].responseFr

\* C5 as amended: on the default catalog "quel est mon solde", which is 18
\* code units long, is classified balance_inquiry with confidence 5/18, and
\* the reply in French is the French text of the balance_inquiry entry.
C5_RoundTripSolde == RoundTripSolde(Divide(5, 18))

\* the scenario has run to its reply
C5_Witness ==
  /\ ops = 0
  /\ call.op = "generateBotResponse"
  /\ call.text = QuelEstMonSolde
  /\ call.language = "fr"
  /\ call.intent.confidence = Divide(Len(Str("solde")), Len(QuelEstMonSolde))
  /\ call.reply = defaultResponses[1].responseFr

\* C5 as claimed: the same with a message length of 19, confidence 5/19
C5_RoundTripSolde19 == RoundTripSolde(Divide(5, 19))

\* The active entries of a store that carry an intent id, by position
Owners(store, intent) ==
  { i \in 1..Len(store) : store[i].isActive /\ store[i].intent = intent }

ReplyText(response, language) ==
  IF language = "ar" THEN response.responseAr ELSE response.responseFr

\* What a lookup by intent id yields: the text of the first owner, or null
LookedUp(store, intent, language) ==
  IF Owners(store, intent) = {} THEN Null
  ELSE LET i == CHOOSE k \in Owners(store, intent) :
                  \A j \in Owners(store, intent) : k <= j
       IN ReplyText(store[i], language)

\* C4: a confidence k/n with 10k < n is answered by the fixed unknown
\* message of the language, whatever the intent id and the catalog; with
\* 10k >= n the answer is what the lookup yields (for MobilisChatBot, the
\* entry of its reply table, or the unknown message when it has none).
C4_ThresholdBoundary ==
  LET c == call.intent.confidence
  IN /\ call.op = "generateBotResponse"
        => /\ 10 * c.num < c.den
              => call.reply = UnknownMessage(call.language)
           /\ 10 * c.num >= c.den
              => call.reply = LookedUp(botResponses, call.intent.intent, call.language)
     /\ call.op = "bot.generateResponse"
        => /\ 10 * c.num < c.den
              => call.reply = responses[call.language].unknown
           /\ 10 * c.num >= c.den
              => call.reply \in
                   { responses[call.language][t] :
                       t \in {call.intent.intent, "unknown"} \cap DOMAIN responses[call.language] }

\* At a confidence of exactly 1/10 the lookup was made and found an entry
C4_Witness ==
  /\ call.op = "generateBotResponse"
  /\ call.intent.confidence = Divide(1, 10)
  /\ Owners(botResponses, call.intent.intent) # {}
  /\ call.reply = LookedUp(botResponses, call.intent.intent, call.language)
  /\ call.reply # UnknownMessage(call.language)

\* C10: with a confidence of at least 0.1 and an active entry carrying the
\* intent id, the reply is the text in the requested language of such an
\* entry (the first in store order), not the text of an entry that is
\* inactive or carries another intent, and not the text in the other
\* language.
C10_ReplyOfMatchedEntry ==
  LET c == call.intent.confidence
      owners == Owners(botResponses, call.intent.intent)
      other == IF call.language = "ar" THEN "fr" ELSE "ar"
  IN (call.op = "generateBotResponse" /\ 10 * c.num >= c.den /\ owners # {})
     => /\ \E i \in owners :
             /\ call.reply = ReplyText(botResponses[i], call.language)
             /\ \A j \in owners : i <= j
        /\ \A j \in 1..Len(botResponses) :
             /\ j \notin owners
                => call.reply \notin {botResponses[j].responseAr, botResponses[j].responseFr}
             /\ call.reply # ReplyText(botResponses[j], other)

\* the French reply of the second entry, with an active first entry of
\* another intent in the catalog
C10_Witness ==
  /\ call.op = "generateBotResponse"
  /\ call.language = "fr"
  /\ ~BelowThreshold(call.intent.confidence)
  /\ Len(botResponses) >= 2
  /\ botResponses[1].isActive
  /\ botResponses[1].intent # call.intent.intent
  /\ Owners(botResponses, call.intent.intent) = {2}
  /\ call.reply = botResponses[2].responseFr

\* The keywords of the pool and their other spellings in upper case
KeywordSpellings ==
  KeywordPool \cup { <<"U0130">>, <<"I", "U0307">>, <<" ", "I">> }

\* The spellings with the lower-case form of keyword k
CaseVariants(k) ==
  LET lower == ToLowerCase(k)
  IN { t \in KeywordSpellings : ToLowerCase(t) = lower }

ReplaceKeyword(store, p, k) ==
  [store EXCEPT ![p[1]].keywords[p[2]] = k]

\* Two messages with the same lower-case form are classified alike when
\* each is classified as that lower-case form is.
CaseInsensitive(sameLengthOnly) ==
  /\ call.op = "analyzeIntent"
     => /\ analyzeIntent(ToLowerCase(call.text), botResponses).intent
             = call.intent.intent
        /\ \A p \in KeywordPositions(botResponses) :
             \A k \in CaseVariants(KeywordAt(botResponses, p)) :
               /\ KeywordMatches(normalizeText(call.text), k)
                    = KeywordMatches(normalizeText(call.text), KeywordAt(botResponses, p))
               /\ (sameLengthOnly => Len(k) = Len(KeywordAt(botResponses, p)))
                  => analyzeIntent(call.text, ReplaceKeyword(botResponses, p, k)).intent
                       = call.intent.intent
  /\ call.op = "bot.analyzeIntent"
     => MobilisChatBot_analyzeIntent(ToLowerCase(call.text)).intent
          = call.intent.intent

ReplyStep ==
  \/ call.op = "message.analyzeIntent" /\ call'.op = "message.done"
  \/ call.op = "facebook.analyzeIntent" /\ call'.op = "facebook.done"

BotMessage(text, language) ==
  [text |-> text, sender |-> "bot", language |-> language]

MessagesOf(convs, id) == convs[id].messages

UserMessage(text, language) ==
  [text |-> text, sender |-> "user", language |-> language]

LastMessage(convs, id) ==
  MessagesOf(convs, id)[Len(MessagesOf(convs, id))]

\* C12: when the entry a message request was classified to has been deleted
\* or deactivated before the request's reply lookup, the lookup yields null,
\* the request completes, the user message is still the last message of
\* the conversation, and nothing is appended to a conversation or handed
\* to Messenger.
C12_DeletedEntryGivesNoReply ==
  [][ (/\ ReplyStep
       /\ ~BelowThreshold(call.intent.confidence)
       /\ Owners(botResponses, call.intent.intent) = {})
      => /\ call'.reply = Null
         /\ conversations' = conversations
         /\ LastMessage(conversations', call.id)
              = UserMessage(call.text, call.language)
         /\ sent' = sent ]_vars

\* C12 (witness): a message request has completed with a null reply for an
\* intent it had matched with confidence 1, its user message stored last
C12_Witness ==
  /\ call.op \in {"message.done", "facebook.done"}
  /\ call.intent.intent = "balance_inquiry"
  /\ call.intent.confidence = Divide(6, 6)
  /\ Owners(botResponses, "balance_inquiry") = {}
  /\ call.reply = Null
  /\ LastMessage(conversations, call.id) = UserMessage(call.text, call.language)
  /\ sent = <<>>

ActiveEntries(store) == {i \in 1..Len(store) : store[i].isActive}

\* C13: in every catalog reached by creating, updating and deleting
\* entries, a classification that is not the unknown result carries the
\* intent and category of an entry that is in the store and active at that
\* moment, and a reply that is neither the unknown message nor null is the
\* requested language's text of such an entry.
C13_OnlyActiveEntriesAnswer ==
  [][ /\ (call.op = "none" /\ call'.op = "analyzeIntent")
         => \/ call'.intent = UnknownIntent
            \/ \E i \in ActiveEntries(botResponses) :
                 /\ call'.intent.intent = botResponses[i].intent
                 /\ call'.intent.category = botResponses[i].category
      /\ (call'.op = "generateBotResponse" /\ call.op # call'.op)
         => \/ call'.reply \in {UnknownMessage(call'.language), Null}
            \/ \E i \in ActiveEntries(botResponses) :
                 /\ call'.intent.intent = botResponses[i].intent
                 /\ call'.reply = ReplyText(botResponses[i], call'.language)
    ]_vars

\* C13 (witness): with the first owner of the keyword "credit" deactivated
\* or deleted, "credit" is classified to the second owner, and the reply
\* is the second owner's text
C13_Witness ==
  /\ call.op = "generateBotResponse"
  /\ call.text = Str("credit")
  /\ ops > 0
  /\ \A i \in ActiveEntries(botResponses) :
       botResponses[i].intent # "balance_inquiry"
  /\ call.intent.intent = "recharge"
  /\ call.reply = ReplyText(defaultResponses[2], call.language)

\* C14: in every catalog reached from the default one by creating, updating
\* and deleting entries, no two active entries have the same intent.
C14_ActiveIntentsUnique ==
  \A i, j \in ActiveEntries(botResponses) :
    botResponses[i].intent = botResponses[j].intent => i = j

\* C15: a step of a classification, of a reply lookup, or of a message or
\* webhook request (any step that moves one of the two request slots)
\* leaves the catalog as it was: the same entries, in the same order, with
\* the same fields.
C15_CatalogUnchangedByCalls ==
  [][ (call' # call \/ probe' # probe \/ conversations' # conversations
         \/ sent' # sent)
      => botResponses' = botResponses ]_vars

\* C15 (witness): a message request has run to its end, with a bot message
\* appended, a classification call is under way beside it, and the catalog
\* is the one a deactivation left
C15_Witness ==
  /\ call.op = "message.done"
  /\ Truthy(call.reply)
  /\ LastMessage(conversations, call.id) = BotMessage(call.reply, call.language)
  /\ probe.op = "analyzeIntent"
  /\ botResponses = updateBotResponse(InitialBotResponses, 1, [isActive |-> FALSE])

\* The active catalog contents: the intent, keywords and category of the
\* active entries, in store order
ActiveContents(store) ==
  LET active == SelectSeq(store, LAMBDA r : r.isActive)
  IN [i \in 1..Len(active) |->
        [id |-> i, intent |-> active[i].intent,
         keywords |-> active[i].keywords,
         responseAr |-> "", responseFr |-> "",
         category |-> active[i].category, isActive |-> TRUE]]

\* The classification as a function of the message and those contents
Classified(text, contents) ==
  analyzeIntent_responses(normalizeText(text), text, contents, 1, UnknownIntent)

ClassifyStep ==
  /\ call.op = "none"
  /\ call'.op \in {"message.analyzeIntent", "facebook.analyzeIntent"}

\* C16: the ServiceIntent of a classification is a function of the message
\* and of the active catalog contents at the call: it is that function's
\* value for the call of a message or webhook request and for a call of
\* the analyze-intent route, whatever conversations, Messenger sends and
\* other calls are under way; and a request that classifies a message
\* while another call of the same message is suspended gets the same
\* intent, confidence and category when the active contents are the same.
C16_Deterministic ==
  [][ /\ ClassifyStep
         => /\ call'.intent = Classified(call'.text, ActiveContents(botResponses))
            /\ (/\ probe.op = "analyzeIntent"
                /\ probe.text = call'.text
                /\ ActiveContents(probe.responses) = ActiveContents(botResponses))
               => call'.intent = probe.intent
      /\ (probe.op = "none" /\ probe'.op = "analyzeIntent")
         => probe'.intent = Classified(probe'.text, ActiveContents(botResponses))
    ]_vars

\* C16 (witness): two calls of the same message are under way, one of a
\* message request and one of the analyze-intent route, after a catalog
\* write and a conversation write, with the same result, which is not
\* the unknown one
C16_Witness ==
  /\ call.op \in {"message.analyzeIntent", "facebook.analyzeIntent"}
  /\ probe.op = "analyzeIntent"
  /\ probe.text = call.text
  /\ ops > 0
  /\ ActiveContents(probe.responses) = ActiveContents(botResponses)
  /\ call.intent = probe.intent
  /\ call.intent.intent = "recharge"

WellFormed(store) ==
  \A i \in 1..Len(store) :
    \A j \in 1..Len(store[i].keywords) : IsString(store[i].keywords[j])

IsServiceIntent(intent) ==
  /\ DOMAIN intent = {"intent", "confidence", "category"}
  /\ intent.intent \in STRING
  /\ intent.category \in STRING
  /\ ~IsNaN(intent.confidence)
  /\ intent.confidence.den # 0

\* C17: for every message, the empty one and the blank ones included, and
\* every catalog whose keywords are all strings, a classification raises
\* nothing and returns a ServiceIntent: an intent, a category and a
\* confidence that is a finite number.
C17_ClassifyIsTotal ==
  (call.op \in {"analyzeIntent", "analyzeIntent.error", "bot.analyzeIntent"}
     /\ WellFormed(botResponses))
  => /\ call.op # "analyzeIntent.error"
     /\ IsServiceIntent(call.intent)

\* C17 (witness): the empty message has been classified under a catalog
\* with an empty and a blank keyword
C17_Witness ==
  /\ call.op = "analyzeIntent"
  /\ WellFormed(botResponses)
  /\ Len(botResponses) = 2
  /\ botResponses[1].keywords = << <<>> >>
  /\ botResponses[2].keywords = << <<" ">> >>
  /\ call.text = <<>>
  /\ IsServiceIntent(call.intent)

\* C18: leading and trailing whitespace of the message takes no part in a
\* match: a message whose trim is not empty is classified to the same
\* intent and category as its trim, under every catalog, those with
\* keywords that begin or end with whitespace included.
C18_TrimmedMessageClassifiesAlike ==
  /\ (call.op = "analyzeIntent" /\ Trim(call.text) # <<>>)
     => LET trimmed == analyzeIntent(Trim(call.text), botResponses)
        IN /\ call.intent.intent = trimmed.intent
           /\ call.intent.category = trimmed.category
  /\ (call.op = "bot.analyzeIntent" /\ Trim(call.text) # <<>>)
     => LET trimmed == MobilisChatBot_analyzeIntent(Trim(call.text))
        IN /\ call.intent.intent = trimmed.intent
           /\ call.intent.category = trimmed.category

\* length(keyword) / length(original message)
Ratio(keyword, message) == Divide(Len(keyword), Len(message))

\* The positions of the fixed table whose keyword is a substring of the
\* normalized message
BotMatchingPositions(message) ==
  { p \in UNION { { <<i, j>> : j \in 1..Len(predefinedIntents[i].keywords) } :
                  i \in 1..Len(predefinedIntents) } :
      Includes(Normalized(message),
               ToLowerCase(predefinedIntents[p[1]].keywords[p[2]])) }

\* C19: the confidence of a classification that is not the unknown result
\* is length(k) / length(original message) for one keyword k of the
\* returned entry that is a substring of the normalized message, and no
\* matching keyword of an active entry has a greater ratio; it is never a
\* sum or a mean of several ratios.
C19_ConfidenceIsBestRatio ==
  /\ (call.op = "analyzeIntent" /\ call.intent # UnknownIntent)
     => LET matching == MatchingPositions(botResponses, call.text)
        IN /\ \E p \in matching :
                /\ botResponses[p[1]].intent = call.intent.intent
                /\ call.intent.confidence
                     = Ratio(KeywordAt(botResponses, p), call.text)
           /\ \A q \in matching :
                ~GreaterThan(Ratio(KeywordAt(botResponses, q), call.text),
                             call.intent.confidence)
  /\ (call.op = "bot.analyzeIntent" /\ call.intent # UnknownIntent)
     => LET matching == BotMatchingPositions(call.text)
        IN /\ \E p \in matching :
                /\ predefinedIntents[p[1]].name = call.intent.intent
                /\ call.intent.confidence
                     = Ratio(predefinedIntents[p[1]].keywords[p[2]], call.text)
           /\ \A q \in matching :
                ~GreaterThan(Ratio(predefinedIntents[q[1]].keywords[q[2]], call.text),
                             call.intent.confidence)

\* the reply lookup of this step finds an entry whose text for the
\* requested language is empty
EmptyTextLookedUp ==
  /\ ReplyStep
  /\ ~BelowThreshold(call.intent.confidence)
  /\ LookedUp(botResponses, call.intent.intent, OrAr(call.language)) = ""

\* C20: when the reply text of the matched entry for the requested language
\* is empty, the reply lookup yields the lookup failure (null), never the
\* empty text, and no bot message is appended to the conversation or
\* handed to Messenger.
C20_EmptyTextIsLookupFailure ==
  [][ EmptyTextLookedUp
      => /\ call'.reply = Null
         /\ conversations' = conversations
         /\ sent' = sent ]_vars

(***************************************************************************)
(* C22                                                                     *)
(***************************************************************************)
\* the category values of ServiceIntent
Categories == {"balance", "recharge", "plans", "support", "general"}

\* C22: the category of every ServiceIntent that analyzeIntent returns is
\* one of balance, recharge, plans, support, general, in every catalog state
\* reached through the create and update operations.
C22_CategoryIsOneOfFive ==
  call.op = "analyzeIntent" => call.intent.category \in Categories

(***************************************************************************)
(* C25                                                                     *)
(***************************************************************************)
\* a message request that has passed addMessageToConversation
MessageOps == {"message.notFound", "message.analyzeIntent", "message.done"}

\* C25: a message posted to a conversation id that does not exist gets
\* false from addMessageToConversation and 404 from the route: every
\* conversation is left as it was, nothing is classified, and the request
\* ends there, without a reply lookup or a bot message.
C25_UnknownConversationIsNotFound ==
  [][ /\ ( /\ call.op = "none"
           /\ call'.op \in MessageOps
           /\ ~(\E i \in 1..Len(conversations) :
                  conversations[i].id = call'.id) )
         => /\ call'.op = "message.notFound"
            /\ conversations' = conversations
            /\ call'.intent = UnknownIntent
            /\ call'.reply = Null
      /\ (call.op = "message.notFound" /\ call' # call)
         => /\ call' = NoCall
            /\ conversations' = conversations ]_vars

\* a message was posted to the id 2 while the store holds one conversation
C25_Witness ==
  /\ call.op = "message.notFound"
  /\ call.id = 2
  /\ Len(conversations) = 1

(***************************************************************************)
(* C29                                                                     *)
(***************************************************************************)
\* the language a request asks for: the one it names, Arabic when it names
\* none
RequestedLanguage(language) ==
  IF language \in Languages THEN language ELSE "ar"

\* the texts a reply in a language can be: the unknown message, or the text
\* an entry of the catalog holds for that language
RepliesIn(store, language) ==
  {UnknownMessage(language)}
    \cup {ReplyText(store[i], language) : i \in 1..Len(store)}

\* the conversations other than one are the same in two stores
OthersUnchanged(before, after, id) ==
  /\ Len(after) = Len(before)
  /\ \A i \in 1..Len(before) : before[i].id # id => after[i] = before[i]

\* C29: only user messages trigger the bot.  A message posted with sender
\* "bot" to an existing conversation appends that one message, classifies
\* nothing and gets no reply; one posted with sender "user" appends the user
\* message and then at most one bot message, whose text is a reply in the
\* request's language, Arabic when the request names none.
C29_OnlyUserMessagesTriggerTheBot ==
  [][ /\ ( /\ call.op = "none"
           /\ call'.op \in {"message.analyzeIntent", "message.done"} )
         => LET last == LastMessage(conversations', call'.id)
            IN /\ MessagesOf(conversations', call'.id)
                    = Append(MessagesOf(conversations, call'.id), last)
               /\ OthersUnchanged(conversations, conversations', call'.id)
               /\ last.text = call'.text
               /\ last.sender \in Senders
               /\ last.sender = "bot"
                    => /\ call'.op = "message.done"
                       /\ call'.intent = UnknownIntent
                       /\ call'.reply = Null
               /\ last.sender = "user" => call'.op = "message.analyzeIntent"
      /\ ( call.op = "message.done" /\ call' # call )
         => /\ call' = NoCall
            /\ conversations' = conversations
      /\ ( /\ call.op = "message.analyzeIntent"
           /\ call'.op = "message.done" )
         => /\ \/ conversations' = conversations
               \/ /\ MessagesOf(conversations', call.id)
                       = Append(MessagesOf(conversations, call.id),
                                BotMessage(call'.reply, call.language))
                  /\ OthersUnchanged(conversations, conversations', call.id)
                  /\ call'.reply
                       \in RepliesIn(botResponses,
                                     RequestedLanguage(call.language))
            /\ LastMessage(conversations, call.id)
                 = UserMessage(call.text, call.language) ]_vars

\* a user message that names no language has been answered with the Arabic
\* text of the balance entry, stored after the user message
C29_Witness ==
  /\ call.op = "message.done"
  /\ call.language = NoLanguage
  /\ Len(botResponses) >= 1
  /\ call.reply = botResponses[1].responseAr
  /\ MessagesOf(conversations, call.id)
       = << UserMessage(call.text, NoLanguage),
            BotMessage(call.reply, NoLanguage) >>

(***************************************************************************)
(* C26, C27, C28                                                           *)
(***************************************************************************)
\* a verify token has been configured: settings are stored and carry a
\* verifyToken value
Configured(settings) ==
  /\ settings # NoSettings
  /\ settings[1].verifyToken \notin {Undefined, Null}

\* this step answers a request on a route
Answers(route) ==
  /\ answer'.n = answer.n + 1
  /\ answer'.route = route

\* the answer of this step echoes the challenge with status 200
Verified ==
  /\ answer'.status = 200
  /\ answer'.text = answer'.query.challenge

\* C26: webhook verification echoes the challenge with status 200 if and
\* only if hub.mode is "subscribe" and the request's hub.verify_token equals
\* the configured verify token; with mode "subscribe" and no settings or
\* another token the answer is 403, with any other mode it is 400.
\* FacebookMessengerAPI.verifyWebhook returns the challenge under the same
\* condition on the token it is given, and null otherwise.
C26_VerificationNeedsTheConfiguredToken ==
  [][ /\ Answers("GET /webhook/messenger")
         => LET q == answer'.query
                matches == /\ Configured(facebookSettings)
                           /\ q.token = facebookSettings[1].verifyToken
            IN /\ Verified <=> (q.mode = "subscribe" /\ matches)
               /\ (q.mode = "subscribe" /\ ~matches)
                    => answer'.status = 403 /\ answer'.text = "Forbidden"
               /\ q.mode # "subscribe"
                    => answer'.status = 400 /\ answer'.text = "Bad Request"
      /\ Answers("verifyWebhook")
         => LET q == answer'.query
            IN answer'.text =
                 IF q.mode = "subscribe" /\ q.token = q.verifyToken
                 THEN q.challenge ELSE Null ]_vars

\* C27: while no verify token has been configured (no settings stored, or
\* settings stored without a verifyToken value), no GET /webhook/messenger
\* request is verified: it is answered 403 or 400 and does not receive the
\* challenge, also when it carries no hub.verify_token parameter.
C27_NoVerificationWithoutConfiguredToken ==
  [][ ( /\ Answers("GET /webhook/messenger")
        /\ ~Configured(facebookSettings) )
      => /\ answer'.status \in {403, 400}
         /\ answer'.text # answer'.query.challenge ]_vars

\* C28: a request GET /api/stats/today is answered by the today handler,
\* with the chat-stats record whose date is the day of the request, and not
\* by the /api/stats/:date handler with the record stored under "today".
C28_TodayIsAnsweredByTodayHandler ==
  ( /\ answer.route \in {"GET /api/stats/:date", "GET /api/stats/today"}
    /\ answer.query.segment = "today" )
  => /\ answer.route = "GET /api/stats/today"
     /\ answer.json = SelectSeq(chatStats,
                                LAMBDA record : record.date = answer.query.now)

(***************************************************************************)
(* C21, C23, C24, C30                                                      *)
(***************************************************************************)
\* where a message id occurs: the <<conversation, position>> pairs
PositionsOf(convs, id) ==
  UNION { { <<c, i>> : i \in { j \in 1..Len(convs[c].messages) :
                                 convs[c].messages[j].id = id } } :
          c \in 1..Len(convs) }

\* the message of the event k of the request p is stored, and the reply to
\* it is stored later in the same conversation
StoredInOrder(convs, p, k) ==
  \E c \in 1..Len(convs) :
    \E i, j \in 1..Len(convs[c].messages) :
      /\ i < j
      /\ convs[c].messages[i].id = MessageId(p, k, "message")
      /\ convs[c].messages[i].sender = "user"
      /\ convs[c].messages[j].id = MessageId(p, k, "reply")
      /\ convs[c].messages[j].sender = "bot"

\* C21: a request stores its user message before it classifies it and the
\* reply after.  While a request is between the two, its message is stored
\* and its reply is not; every reply in a conversation stands later in the
\* same conversation than the user message it answers; and no user message
\* has two replies, however the requests on one conversation interleave.
C21_ReplyFollowsItsUserMessage ==
  /\ \A p \in Procs :
       requests[p].pc \in {"addUserMessage", "generateBotResponse"}
         => /\ PositionsOf(conversations,
                           MessageId(p, requests[p].k, "message"))
                 = { <<requests[p].conversation,
                       CHOOSE i \in 1..Len(conversations[requests[p].conversation].messages) :
                         conversations[requests[p].conversation].messages[i].id
                           = MessageId(p, requests[p].k, "message")>> }
            /\ PositionsOf(conversations,
                           MessageId(p, requests[p].k, "reply")) = {}
  /\ \A c \in 1..Len(conversations) :
       \A j \in 1..Len(conversations[c].messages) :
         LET reply == conversations[c].messages[j]
         IN reply.id[3] = "reply"
              => /\ reply.sender = "bot"
                 /\ StoredInOrder(conversations, reply.id[1], reply.id[2])
                 /\ Cardinality(PositionsOf(conversations, reply.id)) = 1

\* two requests were under way on one conversation: the conversation holds
\* the message of one, the message of the other, and then both replies, the
\* reply to the second message first
C21_Witness ==
  \E c \in 1..Len(conversations) :
    /\ Len(conversations[c].messages) >= 4
    /\ conversations[c].messages[1].id = MessageId("a", 1, "message")
    /\ conversations[c].messages[2].id = MessageId("b", 1, "message")
    /\ conversations[c].messages[3].id = MessageId("b", 1, "reply")
    /\ conversations[c].messages[4].id = MessageId("a", 1, "reply")

\* the active conversations of a sender
ActiveConversationsOf(convs, userId) ==
  { c \in 1..Len(convs) : convs[c].userId = userId /\ convs[c].isActive }

IsPrefix(s, t) ==
  /\ Len(s) <= Len(t)
  /\ \A i \in 1..Len(s) : t[i] = s[i]

\* the request p gets true from addMessageToConversation in this step
AddReturns(p) ==
  /\ requests'[p] # requests[p]
  /\ \/ requests'[p].pc \in {"addUserMessage", "addBotMessage"}
     \/ /\ requests[p].pc = "generateBotResponse"
        /\ requests'[p].pc = "done"

\* the id of the message the request p has added in this step
Added(p) ==
  MessageId(p, requests'[p].k,
            IF requests'[p].pc = "addUserMessage" THEN "message" ELSE "reply")

\* C24: no message is lost.  However the calls of addMessageToConversation
\* on a conversation interleave, a call that returns true leaves its message
\* in the conversation once, as the last one, and no step removes or
\* reorders the messages a conversation holds.
C24_NoMessageLost ==
  [][ /\ Len(conversations) <= Len(conversations')
      /\ \A c \in 1..Len(conversations) :
           IsPrefix(conversations[c].messages, conversations'[c].messages)
      /\ \A p \in Procs :
           AddReturns(p)
             => LET c == requests'[p].conversation
                IN /\ PositionsOf(conversations', Added(p))
                        = { <<c, Len(conversations'[c].messages)>> }
                   /\ Len(conversations'[c].messages)
                        = Len(conversations[c].messages) + 1 ]_vars

\* the messages of two requests alternate in one conversation
C24_Witness ==
  \E c \in 1..Len(conversations) :
    /\ Len(conversations[c].messages) >= 3
    /\ conversations[c].messages[1].id[1] = "a"
    /\ conversations[c].messages[2].id[1] = "b"
    /\ conversations[c].messages[3].id[1] = "a"

\* the outcomes of sendFacebookMessage that deliver nothing
DeliveryFailures == {"notConfigured", "notOk", "rejected"}

\* C30: a failed delivery neither undoes nor blocks the handling.  With
\* settings or page access token missing, or the Graph API call failing,
\* handleFacebookMessage does not raise: the user message and the reply of
\* every event handled so far are stored, in that order, the next event of
\* the batch is taken up, and the webhook answers 200 after the last.
C30_FailedDeliveryDoesNotBlock ==
  \A p \in Procs :
    requests[p].kind = "webhook"
      => /\ requests[p].status \in {0, 200}
         /\ \A j \in 1..Len(requests[p].events) :
              ( j < requests[p].k \/ requests[p].pc = "done" )
                => StoredInOrder(conversations, p, j)
         /\ requests[p].pc = "done"
              => /\ requests[p].status = 200
                 /\ requests[p].k = Len(requests[p].events)
         /\ ( requests[p].delivery \in DeliveryFailures
              /\ requests[p].pc # "done" )
              => requests[p].k > 1

\* a webhook request of two events has answered 200 with both events
\* stored, although the Graph API call of its last event failed
C30_Witness ==
  \E p \in Procs :
    /\ requests[p].kind = "webhook"
    /\ Len(requests[p].events) = 2
    /\ requests[p].pc = "done"
    /\ requests[p].status = 200
    /\ requests[p].delivery \in {"notOk", "rejected"}
    /\ StoredInOrder(conversations, p, 1)
    /\ StoredInOrder(conversations, p, 2)

====
